---------------------------- MODULE Spec2Model ----------------------------
(***************************************************************************)
(* ctx: terminal command logger.                                           *)
(*                                                                         *)
(*   src/src/logger.rs  log_command: the capture gate (TTY check,          *)
(*                      denylist, duplicate suppression, debounce, state   *)
(*                      file, wrapped command, hand-off to `ctx log-cmd`)  *)
(*   src/src/db.rs      init_db / insert_command_log: the event store      *)
(*   src/src/main.rs    main: the subcommands (log-cmd, log, today,        *)
(*                      weekly, summary, clear, top, projects, search,     *)
(*                      stats)                                             *)
(*                                                                         *)
(* Text is modelled as a sequence of one-character strings, so that        *)
(* trimming, prefix tests and SQL LIKE are computed as the code computes   *)
(* them.  Time is counted in ticks of a quarter of a second.               *)
(***************************************************************************)
EXTENDS Integers, Sequences, FiniteSets, TLC

(***************************************************************************)
(* Text helpers (Rust str methods used by the code).                       *)
(***************************************************************************)

\* char::is_whitespace, restricted to the characters of the model
IsSpace(c) == c \in {" ", "\t", "\n"}

RECURSIVE trim_start(_)
\* str::trim_start
trim_start(s) ==
    IF s # <<>> /\ IsSpace(Head(s)) THEN trim_start(Tail(s)) ELSE s

RECURSIVE trim_end(_)
\* str::trim_end
trim_end(s) ==
    IF s # <<>> /\ IsSpace(s[Len(s)]) THEN trim_end(SubSeq(s, 1, Len(s) - 1)) ELSE s

\* str::trim
trim(s) == trim_end(trim_start(s))

\* str::starts_with
starts_with(s, pre) ==
    Len(s) >= Len(pre) /\ SubSeq(s, 1, Len(pre)) = pre

RECURSIVE join(_)
\* [String]::join(" ")
join(args) ==
    IF args = <<>> THEN <<>>
    ELSE IF Len(args) = 1 THEN args[1]
    ELSE args[1] \o <<" ">> \o join(Tail(args))

(***************************************************************************)
(* Time.  One tick is a quarter of a second; the debounce window of        *)
(* logger.rs:50 (0.5 s) is HalfSecond ticks.                               *)
(***************************************************************************)
HalfSecond == 2

TicksPerSec == 2 * HalfSecond

\* the clock reading at which the model starts (1.25 s past the epoch)
ClockStart == TicksPerSec + 1

\* the clock stops advancing here
MaxClock == 7

\* `now as u64`: the whole seconds of a clock reading
as_u64(t) == t \div TicksPerSec

\* `last_time as f64`: whole seconds as a clock reading
as_f64(secs) == secs * TicksPerSec

(***************************************************************************)
(* State.                                                                  *)
(***************************************************************************)
VARIABLES
    clock,       \* SystemTime::now() / Local::now(), in ticks
    tz,          \* the UTC offset of the local time zone, in ticks
    ctx_state,   \* ~/.context/ctx_state: its two lines (and, in `at`, the
                 \* unrounded time of the attempt that wrote them)
    pc,          \* log_command processes: where each one is
    args,        \* log_command(args)
    start,       \* `start` (Instant::now()), logger.rs:18
    last_cmd,    \* `last_cmd`, logger.rs:30
    last_time,   \* `last_time`, logger.rs:31
    seen,        \* the state file as the process read it (line1, at)
    now,         \* `now`, logger.rs:43
    status,      \* exit status of the wrapped command
    duration,    \* `duration`, logger.rs:64
    repeat,      \* the process carries the text of the invocation before it,
                 \* which had returned when this one started
    prev,        \* the text of the invocation started last
    verdict,     \* the decision of the gate made last
    store,       \* the table command_logs, rows in insertion (rowid) order
    out          \* what the last run of main printed and how it ended

vars == <<clock, tz, ctx_state, pc, args, start, last_cmd, last_time, seen, now,
          status, duration, repeat, prev, verdict, store, out>>

gateVars == <<ctx_state, pc, args, start, last_cmd, last_time, seen, now,
              status, duration, repeat, prev, verdict>>

(***************************************************************************)
(* The event store (db.rs) and what SQLite does for the queries of main.rs *)
(***************************************************************************)

\* an injective enumeration of a finite set: the orders a scan can come in
Perms(S) ==
    {f \in [1..Cardinality(S) -> S] : \A i, j \in 1..Cardinality(S) : f[i] = f[j] => i = j}

\* ASCII case folding of SQLite's LIKE (the letters the model uses)
lower(c) ==
    CASE c = "A" -> "a"
      [] c = "C" -> "c"
      [] c = "G" -> "g"
      [] c = "T" -> "t"
      [] c = "X" -> "x"
      [] OTHER -> c

RECURSIVE like(_, _)
\* SQLite `text LIKE pat`: % matches any run, _ any one character, letters
\* match without regard to ASCII case, no escape character
like(pat, s) ==
    IF pat = <<>> THEN s = <<>>
    ELSE IF Head(pat) = "%" THEN like(Tail(pat), s) \/ (s # <<>> /\ like(pat, Tail(s)))
    ELSE IF s = <<>> THEN FALSE
    ELSE IF Head(pat) = "_" THEN like(Tail(pat), Tail(s))
    ELSE lower(Head(pat)) = lower(Head(s)) /\ like(Tail(pat), Tail(s))

\* format!("%{}%", x), main.rs:306 and main.rs:352
like_pattern(x) == <<"%">> \o x \o <<"%">>

\* the literal 'ctx%' of main.rs:330, 341, 353, 364
CtxPrefixPattern == <<"c", "t", "x", "%">>

\* `command NOT LIKE 'ctx%'`
not_like_ctx(row) == ~ like(CtxPrefixPattern, row.command)

\* the test of main.rs:145-146 (and 233-234): trimmed == "ctx" || trimmed.starts_with("ctx ")
is_self_invocation(command) ==
    LET trimmed == trim_start(command)
    IN  trimmed = <<"c", "t", "x">> \/ starts_with(trimmed, <<"c", "t", "x", " ">>)

\* DateTime<Local>::to_rfc3339: the text holds the local date and time, then
\* the UTC offset; `local` and `off` are those two parts (in ticks)
to_rfc3339(inst, off) == [local |-> inst + off, off |-> off]

\* DateTime::parse_from_rfc3339(text): the instant the text denotes
parse_from_rfc3339(text) == text.local - text.off

\* order of the offset suffixes "+HH:MM" / "-HH:MM" compared as text:
\* '+' sorts before '-', then the digits
off_text_lt(x, y) ==
    IF x >= 0 /\ y >= 0 THEN x < y
    ELSE IF x < 0 /\ y < 0 THEN (-x) < (-y)
    ELSE x >= 0

\* SQLite compares the TEXT column timestamp byte by byte
text_lt(a, b) ==
    a.local < b.local \/ (a.local = b.local /\ off_text_lt(a.off, b.off))

text_ge(a, b) == ~ text_lt(a, b)

\* the table command_logs: absent until init_db creates it
NoDb == [exists |-> FALSE, rows |-> <<>>]

\* init_db: CREATE TABLE IF NOT EXISTS
init_db(db) == IF db.exists THEN db ELSE [exists |-> TRUE, rows |-> <<>>]

\* the ids already in the table (PRIMARY KEY)
ids_of(rows) == {rows[i].id : i \in 1..Len(rows)}

\* insert_command_log over a table without the PRIMARY KEY constraint and
\* without write failures: the row is always appended
insert_unchecked(db, log, writable) ==
    [ok |-> TRUE, db |-> [db EXCEPT !.rows = Append(@, log)]]

\* insert_command_log: Err on a PRIMARY KEY collision or an unwritable
\* database, otherwise the row is appended
insert_command_log(db, log, writable) ==
    IF ~ writable \/ log.id \in ids_of(db.rows)
    THEN [ok |-> FALSE, db |-> db]
    ELSE [ok |-> TRUE,
          db |-> [db EXCEPT !.rows = Append(@, log)]]

\* ORDER BY timestamp ASC|DESC: every order of the rows that agrees with
\* the comparison of the timestamp texts (rows with equal timestamps come
\* in an order SQLite does not specify)
order_by_timestamp(rows, desc) ==
    LET n == Len(rows)
        ok(f) == \A i, j \in 1..n :
                    i < j => IF desc
                             THEN ~ text_lt(rows[f[i]].timestamp, rows[f[j]].timestamp)
                             ELSE ~ text_lt(rows[f[j]].timestamp, rows[f[i]].timestamp)
    IN  {[i \in 1..n |-> rows[f[i]]] : f \in {g \in Perms(1..n) : ok(g)}}

RECURSIVE sum_duration(_)
\* SUM(duration_secs) over rows (0 here for no rows; NULL is handled by the callers)
sum_duration(rows) ==
    IF rows = <<>> THEN 0 ELSE Head(rows).duration_secs + sum_duration(Tail(rows))

\* the set of durations of rows
durations_of(rows) == {rows[i].duration_secs : i \in 1..Len(rows)}

\* MIN / MAX of a non-empty set of numbers
min_of(S) == CHOOSE x \in S : \A y \in S : x <= y

max_of(S) == CHOOSE x \in S : \A y \in S : x >= y

\* every order of keys in which the totals do not increase: ORDER BY cnt
\* DESC over groups, and sort_by over the entries of a HashMap, both leave
\* the order of equal totals open
rankings(keys, total) ==
    {f \in Perms(keys) : \A i, j \in 1..Cardinality(keys) : i < j => total[f[i]] >= total[f[j]]}

\* LIMIT n / take(n)
take(seq, n) == SubSeq(seq, 1, IF n < Len(seq) THEN n ELSE Len(seq))


(***************************************************************************)
(* main.rs: the command line and the subcommands, as functions of the      *)
(* database and the inputs.                                                *)
(***************************************************************************)

\* a command-line argument: text, or the decimal rendering of a number
\* (to_string at logger.rs:72-73, parsed back by clap as i32 / f64)
Str(s) == [isNum |-> FALSE, str |-> s, num |-> 0]

Num(n) == [isNum |-> TRUE, str |-> <<>>, num |-> n]

\* clap takes an argument that starts with '-' for an option
looks_like_option(tok) ==
    IF tok.isNum THEN tok.num < 0 ELSE tok.str # <<>> /\ Head(tok.str) = "-"

\* Cli::parse for `ctx log-cmd ...`: Commands::LogCmd declares four
\* positional arguments (command, cwd, exit_code, duration_secs) and no
\* options, so an option-like argument or a wrong count is a usage error
parse_log_cmd(argv) ==
    IF (\E i \in 1..Len(argv) : looks_like_option(argv[i]))
       \/ Len(argv) # 4
       \/ argv[1].isNum \/ argv[2].isNum \/ ~ argv[3].isNum \/ ~ argv[4].isNum
    THEN [ok |-> FALSE, command |-> <<>>, cwd |-> <<>>, exit_code |-> 0, duration_secs |-> 0]
    ELSE [ok |-> TRUE, command |-> argv[1].str, cwd |-> argv[2].str,
          exit_code |-> argv[3].num, duration_secs |-> argv[4].num]

\* main for `ctx log-cmd argv`: init_db, Cli::parse, then the LogCmd arm
\* (main.rs:83-93); `id` is the uuid drawn, `writable` whether SQLite can write
main_log_cmd(db, argv, id, t, off, writable) ==
    LET db1 == init_db(db)
        cli == parse_log_cmd(argv)
        log == [id |-> id, timestamp |-> to_rfc3339(t, off), cwd |-> cli.cwd,
                command |-> cli.command, exit_code |-> cli.exit_code,
                duration_secs |-> cli.duration_secs]
        ins == insert_command_log(db1, log, writable)
    IN  IF ~ cli.ok THEN [db |-> db1, outcome |-> "usage error"]
        ELSE IF ins.ok THEN [db |-> ins.db, outcome |-> "success"]
        ELSE [db |-> ins.db, outcome |-> "panic"]

\* what a run of main leaves behind: how it ended and what it printed
NoOutput ==
    [cmd |-> "none", outcome |-> "success", text |-> <<>>, n |-> 0, rows |-> <<>>,
     nodata |-> FALSE, total |-> 0, sum |-> 0, min |-> 0, max |-> 0,
     avg |-> [num |-> 0, den |-> 1], uptime |-> [na |-> TRUE, secs |-> 0],
     folders |-> <<>>, commands |-> <<>>]

\* chrono Duration::hours(24) and Duration::days(7), in ticks
Hours24 == 24 * 3600 * TicksPerSec

Days7 == 7 * Hours24

\* Duration::num_seconds: whole seconds, rounded toward zero
num_seconds(d) ==
    IF d >= 0 THEN d \div TicksPerSec ELSE -((-d) \div TicksPerSec)

\* WHERE timestamp >= ?1 with ?1 = since.to_rfc3339(), main.rs:131-133
in_window(rows, t, off, window) ==
    LET since == to_rfc3339(t - window, off)
        keep(row) == text_ge(row.timestamp, since)
    IN  SelectSeq(rows, keep)

\* the rows the scanning loop of main.rs:143-154 counts
counted_rows(ord) ==
    LET keep(row) == ~ is_self_invocation(row.command)
    IN  SelectSeq(ord, keep)

\* the values of one field over rows
cwds_of(rows) == {rows[i].cwd : i \in 1..Len(rows)}

commands_of(rows) == {rows[i].command : i \in 1..Len(rows)}

\* folder_time[k] and command_count[k] after the loop
folder_time(rows, k) ==
    LET keep(row) == row.cwd = k
    IN  sum_duration(SelectSeq(rows, keep))

command_count(rows, k) ==
    LET keep(row) == row.command = k
    IN  Len(SelectSeq(rows, keep))

\* the digest of main.rs:136-197 (Today) and 224-285 (Weekly) for the rows
\* `ord` the windowed query returned; fr and cr are the orders in which the
\* two HashMaps were sorted
digest(ord, fr, cr) ==
    LET rows == counted_rows(ord)
        first == parse_from_rfc3339(rows[1].timestamp)
        last == parse_from_rfc3339(rows[Len(rows)].timestamp)
    IN  [NoOutput EXCEPT
            !.total = Len(rows),
            !.sum = sum_duration(rows),
            !.uptime = IF rows = <<>> THEN [na |-> TRUE, secs |-> 0]
                       ELSE [na |-> FALSE, secs |-> num_seconds(last - first)],
            !.folders = take([i \in 1..Len(fr) |-> <<fr[i], folder_time(rows, fr[i])>>], 3),
            !.commands = take([i \in 1..Len(cr) |-> <<cr[i], command_count(rows, cr[i])>>], 3)]

\* the orders the sorts of main.rs:156-160 can leave the two maps in
folder_rankings(ord) ==
    LET rows == counted_rows(ord)
        total(k) == folder_time(rows, k)
    IN  rankings(cwds_of(rows), [k \in cwds_of(rows) |-> total(k)])

command_rankings(ord) ==
    LET rows == counted_rows(ord)
        total(k) == command_count(rows, k)
    IN  rankings(commands_of(rows), [k \in commands_of(rows) |-> total(k)])

\* Commands::Summary, main.rs:304-315: the aggregate query without GROUP BY
\* returns one row whatever matches; SUM is NULL over no rows
summary_query(rows, folder) ==
    LET keep(row) == like(like_pattern(folder), row.cwd)
        hit == SelectSeq(rows, keep)
    IN  << [count |-> Len(hit), sum_null |-> hit = <<>>, sum |-> sum_duration(hit)] >>

summary(rows, folder) ==
    LET result == summary_query(rows, folder)
    IN  IF result # <<>>
        THEN [NoOutput EXCEPT !.cmd = "summary", !.text = folder,
                              !.total = result[1].count,
                              !.sum = IF result[1].sum_null THEN 0 ELSE result[1].sum]
        ELSE [NoOutput EXCEPT !.cmd = "summary", !.text = folder, !.nodata = TRUE]

\* the test of main.rs:322, had it compared with == "y"
confirmed_exact(answer) == trim(answer) = <<"y">>

\* Commands::Clear, main.rs:322: answer.trim().eq_ignore_ascii_case("y")
confirmed(answer) == trim(answer) \in {<<"y">>, <<"Y">>}

\* Commands::Top, main.rs:330: the groups and their counts
top_groups(rows) ==
    commands_of(SelectSeq(rows, not_like_ctx))

\* Commands::Projects, main.rs:341
project_groups(rows) ==
    cwds_of(SelectSeq(rows, not_like_ctx))

\* Commands::Search, main.rs:352-353
search_rows(rows, pattern) ==
    LET keep(row) == like(like_pattern(pattern), row.command) /\ not_like_ctx(row)
    IN  SelectSeq(rows, keep)

\* Commands::Stats, main.rs:364-371: NULL aggregates read as 0.0 (unwrap_or)
stats(rows) ==
    LET hit == SelectSeq(rows, not_like_ctx)
    IN  IF hit = <<>>
        THEN [NoOutput EXCEPT !.cmd = "stats"]
        ELSE [NoOutput EXCEPT !.cmd = "stats",
                              !.total = Len(hit),
                              !.sum = sum_duration(hit),
                              !.min = min_of(durations_of(hit)),
                              !.max = max_of(durations_of(hit)),
                              !.avg = [num |-> sum_duration(hit), den |-> Len(hit)]]


(***************************************************************************)
(* Runs of main, one action per subcommand.  Every run starts with init_db *)
(* (main.rs:78).                                                           *)
(***************************************************************************)

\* the table holds at most this many rows in the model
MaxEvents == 2

\* the clock advances by a quarter of a second, up to `limit`
Tick(limit) ==
    /\ clock < limit
    /\ clock' = clock + 1
    /\ UNCHANGED <<tz, gateVars, store, out>>

\* the clock advances by d ticks at once (the machine is left alone), up to `limit`
Sleep(d, limit) ==
    /\ clock + d <= limit
    /\ clock' = clock + d
    /\ UNCHANGED <<tz, gateVars, store, out>>

\* the UTC offset Local::now() reports changes to `off` (daylight saving
\* time starts or ends, or TZ is set differently)
SetZone(off) ==
    /\ tz # off
    /\ tz' = off
    /\ UNCHANGED <<clock, gateVars, store, out>>

\* `ctx log-cmd "$CTX_CMD_TO_LOG" "$PWD" "$exit_code" "$duration_s"`, the call
\* of the shell hooks (main.rs:431-437), handled at main.rs:83-93
RunLogCmd(command, cwd, exit_code, duration_secs, id, writable) ==
    LET argv == <<Str(command), Str(cwd), Num(exit_code), Num(duration_secs)>>
        r == main_log_cmd(store, argv, id, clock, tz, writable)
    IN  /\ Len(store.rows) < MaxEvents
        /\ store' = r.db
        /\ out' = [NoOutput EXCEPT !.cmd = "log-cmd", !.outcome = r.outcome]
        /\ UNCHANGED <<clock, tz, gateVars>>

\* DateTime::parse_from_rfc3339(..).unwrap().with_timezone(&Local),
\* main.rs:101 (and 203, 291): the same instant, shown under the offset `off`
with_timezone(text, off) == to_rfc3339(parse_from_rfc3339(text), off)

\* the rows as the listing loops build them: the timestamp parsed and
\* converted, the other fields as stored
as_command_logs(rows, off) ==
    [i \in 1..Len(rows) |-> [rows[i] EXCEPT !.timestamp = with_timezone(@, off)]]

\* Commands::Log, main.rs:94-127
RunLog(reverse) ==
    /\ store' = init_db(store)
    /\ \E ord \in order_by_timestamp(store.rows, reverse) :
          out' = [NoOutput EXCEPT !.cmd = "log", !.n = IF reverse THEN 1 ELSE 0,
                                  !.rows = as_command_logs(ord, tz)]
    /\ UNCHANGED <<clock, tz, gateVars>>

\* Commands::Today (window = Hours24, listing ascending) and
\* Commands::Weekly (window = Days7, listing descending), main.rs:128-303
RunWindowed(name, window, listing_desc, export, markdown) ==
    /\ store' = init_db(store)
    /\ \E ord \in order_by_timestamp(in_window(store.rows, clock, tz, window), FALSE) :
          IF export \/ markdown
          THEN \E fr \in folder_rankings(ord), cr \in command_rankings(ord) :
                  out' = [digest(ord, fr, cr) EXCEPT !.cmd = name,
                                                     !.n = IF markdown THEN 1 ELSE 0]
          ELSE \E lst \in order_by_timestamp(in_window(store.rows, clock, tz, window),
                                             listing_desc) :
                  out' = [NoOutput EXCEPT !.cmd = name, !.rows = as_command_logs(lst, tz),
                                          !.n = 2]
    /\ UNCHANGED <<clock, tz, gateVars>>

RunToday(export, markdown) == RunWindowed("today", Hours24, FALSE, export, markdown)

RunWeekly(export, markdown) == RunWindowed("weekly", Days7, TRUE, export, markdown)

\* Commands::Summary, main.rs:304-315
RunSummary(folder) ==
    /\ store' = init_db(store)
    /\ out' = summary(store.rows, folder)
    /\ UNCHANGED <<clock, tz, gateVars>>

\* Commands::Clear, main.rs:316-328; DELETE fails (expect panics) when the
\* database cannot be written.  out.n = 1 says the rows were deleted,
\* out.total how many (the count conn.execute returns)
RunClear(answer, writable) ==
    /\ IF confirmed(answer)
       THEN IF writable
            THEN /\ store' = [exists |-> TRUE, rows |-> <<>>]
                 /\ out' = [NoOutput EXCEPT !.cmd = "clear", !.text = answer, !.n = 1,
                                            !.total = Len(store.rows)]
            ELSE /\ store' = init_db(store)
                 /\ out' = [NoOutput EXCEPT !.cmd = "clear", !.text = answer,
                                            !.outcome = "panic"]
       ELSE /\ store' = init_db(store)
            /\ out' = [NoOutput EXCEPT !.cmd = "clear", !.text = answer]
    /\ UNCHANGED <<clock, tz, gateVars>>

\* Commands::Top, main.rs:329-339
RunTop(n) ==
    LET hit == SelectSeq(store.rows, not_like_ctx)
        total(k) == command_count(hit, k)
    IN  /\ store' = init_db(store)
        /\ \E r \in rankings(top_groups(store.rows), [k \in top_groups(store.rows) |-> total(k)]) :
              out' = [NoOutput EXCEPT
                         !.cmd = "top", !.n = n,
                         !.rows = take([i \in 1..Len(r) |-> <<r[i], total(r[i])>>], n)]
        /\ UNCHANGED <<clock, tz, gateVars>>

\* Commands::Projects, main.rs:340-350
RunProjects ==
    LET hit == SelectSeq(store.rows, not_like_ctx)
        total(k) == LET keep(row) == row.cwd = k IN Len(SelectSeq(hit, keep))
    IN  /\ store' = init_db(store)
        /\ \E r \in rankings(project_groups(store.rows), [k \in project_groups(store.rows) |-> total(k)]) :
              out' = [NoOutput EXCEPT
                         !.cmd = "projects",
                         !.rows = [i \in 1..Len(r) |->
                                      <<r[i], total(r[i]), folder_time(hit, r[i])>>]]
        /\ UNCHANGED <<clock, tz, gateVars>>

\* Commands::Search, main.rs:351-362
RunSearch(pattern) ==
    /\ store' = init_db(store)
    /\ \E ord \in order_by_timestamp(search_rows(store.rows, pattern), FALSE) :
          out' = [NoOutput EXCEPT !.cmd = "search", !.text = pattern, !.rows = ord]
    /\ UNCHANGED <<clock, tz, gateVars>>

\* Commands::Stats, main.rs:363-379
RunStats ==
    /\ store' = init_db(store)
    /\ out' = stats(store.rows)
    /\ UNCHANGED <<clock, tz, gateVars>>


(***************************************************************************)
(* logger.rs: log_command.  Every invocation is a process of its own; the  *)
(* processes share the state file ~/.context/ctx_state and the database.   *)
(* Processes are numbered in the order in which they start.                *)
(***************************************************************************)

\* the number of log_command invocations of a run of the model
MaxProcs == 3

Procs == 1..MaxProcs

\* the state file before any invocation wrote it
NoFile == [exists |-> FALSE, line1 |-> <<>>, line2 |-> 0, at |-> 0]

\* what a process that has not read the state file has seen of it
NoSeen == [line1 |-> <<>>, at |-> 0]

\* `blacklist`, logger.rs:23
blacklist ==
    { <<"l", "s">>, <<"c", "l", "e", "a", "r">>, <<"p", "w", "d">>,
      <<"h", "i", "s", "t", "o", "r", "y">>, <<"e", "x", "i", "t">> }

\* status.code().unwrap_or(-1), logger.rs:66
exit_code_of(st) ==
    CASE st = "code 0" -> 0
      [] st = "code 1" -> 1
      [] OTHER -> -1

\* logger.rs:68-74: the arguments handed to the tool's own log-cmd
handoff_argv(full_command, cwd, exit_code, dur) ==
    << Str(<<"-", "-", "c", "o", "m", "m", "a", "n", "d">>), Str(full_command),
       Str(<<"-", "-", "c", "w", "d">>), Str(cwd),
       Str(<<"-", "-", "e", "x", "i", "t", "-", "c", "o", "d", "e">>), Num(exit_code),
       Str(<<"-", "-", "d", "u", "r", "a", "t", "i", "o", "n", "-", "s", "e", "c", "s">>),
       Num(dur) >>

\* at most this many invocations are running at the same time
MaxLive == 2

live == {q \in Procs : pc[q] \notin {"init", "exited"}}

\* the locals of a process that returned
Returned(p) ==
    /\ pc' = [pc EXCEPT ![p] = "exited"]
    /\ args' = [args EXCEPT ![p] = <<>>]
    /\ start' = [start EXCEPT ![p] = 0]
    /\ last_cmd' = [last_cmd EXCEPT ![p] = <<>>]
    /\ last_time' = [last_time EXCEPT ![p] = 0]
    /\ seen' = [seen EXCEPT ![p] = NoSeen]
    /\ now' = [now EXCEPT ![p] = 0]
    /\ status' = [status EXCEPT ![p] = "none"]
    /\ duration' = [duration EXCEPT ![p] = 0]
    /\ repeat' = [repeat EXCEPT ![p] = FALSE]

\* logger.rs:12-26: the TTY check, `start`, the denylist
Begin(p, a, t) ==
    /\ pc[p] = "init"
    /\ \A q \in Procs : q < p => pc[q] # "init"
    /\ Cardinality(live) < MaxLive
    /\ IF ~ t
       THEN /\ verdict' = "not a tty"
            /\ prev' = [gated |-> FALSE, text |-> <<>>]
            /\ pc' = [pc EXCEPT ![p] = "exited"]
            /\ UNCHANGED <<args, start, repeat>>
       ELSE IF a[1] \in blacklist
       THEN /\ verdict' = "denylisted"
            /\ prev' = [gated |-> FALSE, text |-> <<>>]
            /\ pc' = [pc EXCEPT ![p] = "exited"]
            /\ UNCHANGED <<args, start, repeat>>
       ELSE /\ args' = [args EXCEPT ![p] = a]
            /\ start' = [start EXCEPT ![p] = clock]
            /\ repeat' = [repeat EXCEPT ![p] = /\ live = {}
                                               /\ prev.gated
                                               /\ prev.text = join(a)]
            /\ prev' = [gated |-> TRUE, text |-> join(a)]
            /\ pc' = [pc EXCEPT ![p] = "read"]
            /\ UNCHANGED verdict
    /\ UNCHANGED <<clock, tz, ctx_state, last_cmd, last_time, seen, now, status,
                   duration, store, out>>

\* logger.rs:29-42: read the two lines of the state file
ReadState(p) ==
    /\ pc[p] = "read"
    /\ last_cmd' = [last_cmd EXCEPT ![p] = IF ctx_state.exists THEN trim(ctx_state.line1)
                                           ELSE <<>>]
    /\ last_time' = [last_time EXCEPT ![p] = IF ctx_state.exists THEN ctx_state.line2 ELSE 0]
    /\ seen' = [seen EXCEPT ![p] = [line1 |-> ctx_state.line1, at |-> ctx_state.at]]
    /\ pc' = [pc EXCEPT ![p] = "check"]
    /\ UNCHANGED <<clock, tz, ctx_state, args, start, now, status, duration,
                   repeat, prev, verdict, store, out>>

\* Check, had it recorded the attempt before the two checks (so that a
\* rejected attempt overwrites the state file too)
CheckRecordingAttempt(p) ==
    /\ pc[p] = "check"
    /\ ctx_state' = [exists |-> TRUE, line1 |-> join(args[p]), line2 |-> as_u64(clock),
                     at |-> clock]
    /\ IF join(args[p]) = last_cmd[p]
       THEN /\ verdict' = "duplicate"
            /\ Returned(p)
       ELSE IF clock - as_f64(last_time[p]) < HalfSecond
       THEN /\ verdict' = "debounced"
            /\ Returned(p)
       ELSE /\ verdict' = "accepted"
            /\ now' = [now EXCEPT ![p] = clock]
            /\ pc' = [pc EXCEPT ![p] = "save"]
            /\ UNCHANGED <<args, start, last_cmd, last_time, seen, status, duration,
                           repeat>>
    /\ UNCHANGED <<clock, tz, prev, store, out>>

\* logger.rs:43-52: `now`, the duplicate check, the debounce check
Check(p) ==
    /\ pc[p] = "check"
    /\ IF join(args[p]) = last_cmd[p]
       THEN /\ verdict' = "duplicate"
            /\ Returned(p)
       ELSE IF clock - as_f64(last_time[p]) < HalfSecond
       THEN /\ verdict' = "debounced"
            /\ Returned(p)
       ELSE /\ verdict' = "accepted"
            /\ now' = [now EXCEPT ![p] = clock]
            /\ pc' = [pc EXCEPT ![p] = "save"]
            /\ UNCHANGED <<args, start, last_cmd, last_time, seen, status, duration,
                           repeat>>
    /\ UNCHANGED <<clock, tz, ctx_state, prev, store, out>>

\* Save, had the write of the state file been left for after the wrapped
\* command (nothing is written at this point)
SaveDeferred(p) ==
    /\ pc[p] = "save"
    /\ pc' = [pc EXCEPT ![p] = "spawn"]
    /\ UNCHANGED <<clock, tz, ctx_state, args, start, last_cmd, last_time, seen, now,
                   status, duration, repeat, prev, verdict, store, out>>

\* logger.rs:54-57: overwrite the state file with the text and `now as u64`
Save(p) ==
    /\ pc[p] = "save"
    /\ ctx_state' = [exists |-> TRUE, line1 |-> join(args[p]), line2 |-> as_u64(now[p]),
                     at |-> now[p]]
    /\ pc' = [pc EXCEPT ![p] = "spawn"]
    /\ UNCHANGED <<clock, tz, args, start, last_cmd, last_time, seen, now, status,
                   duration, repeat, prev, verdict, store, out>>

\* logger.rs:59-62: start the wrapped command; expect panics when it
\* cannot be started
Spawn(p, started) ==
    /\ pc[p] = "spawn"
    /\ IF started
       THEN /\ status' = [status EXCEPT ![p] = "running"]
            /\ pc' = [pc EXCEPT ![p] = "wait"]
            /\ UNCHANGED <<args, start, last_cmd, last_time, seen, now, duration,
                           repeat>>
       ELSE Returned(p)
    /\ UNCHANGED <<clock, tz, ctx_state, prev, verdict, store, out>>

\* logger.rs:61-64: the wrapped command ends; `duration`
Finish(p, st) ==
    /\ pc[p] = "wait"
    /\ status' = [status EXCEPT ![p] = st]
    /\ duration' = [duration EXCEPT ![p] = clock - start[p]]
    /\ pc' = [pc EXCEPT ![p] = "emit"]
    /\ UNCHANGED <<clock, tz, ctx_state, args, start, last_cmd, last_time, seen, now,
                   repeat, prev, verdict, store, out>>

\* logger.rs:65-74: run `ctx log-cmd --command .. --cwd .. --exit-code ..
\* --duration-secs ..` and ignore how it ends
Emit(p, cwd, id, writable) ==
    LET argv == handoff_argv(join(args[p]), cwd, exit_code_of(status[p]), duration[p])
        r == main_log_cmd(store, argv, id, clock, tz, writable)
    IN  /\ pc[p] = "emit"
        /\ store' = r.db
        /\ out' = [NoOutput EXCEPT !.cmd = "log-cmd", !.outcome = r.outcome]
        /\ Returned(p)
        /\ UNCHANGED <<clock, tz, ctx_state, prev, verdict>>

(***************************************************************************)
(* Initial state and the specifications.                                   *)
(***************************************************************************)

Init ==
    /\ clock = ClockStart
    /\ tz = 0
    /\ ctx_state = NoFile
    /\ pc = [p \in Procs |-> "init"]
    /\ args = [p \in Procs |-> <<>>]
    /\ start = [p \in Procs |-> 0]
    /\ last_cmd = [p \in Procs |-> <<>>]
    /\ last_time = [p \in Procs |-> 0]
    /\ seen = [p \in Procs |-> NoSeen]
    /\ now = [p \in Procs |-> 0]
    /\ status = [p \in Procs |-> "none"]
    /\ duration = [p \in Procs |-> 0]
    /\ repeat = [p \in Procs |-> FALSE]
    /\ prev = [gated |-> FALSE, text |-> <<>>]
    /\ verdict = "none"
    /\ store = NoDb
    /\ out = NoOutput

\* inputs of the gate
GateArgs ==
    { << <<"l", "s">> >>, << <<"v", "i">> >>, << <<"c", "c">> >>, << <<"v", "i">>, <<>> >> }

GateCwds == { <<"/", "a">> }

GateIds == {1}

NextGate ==
    \/ Tick(MaxClock)
    \/ \E p \in Procs, a \in GateArgs, t \in BOOLEAN : Begin(p, a, t)
    \/ \E p \in Procs : ReadState(p)
    \/ \E p \in Procs : Check(p)
    \/ \E p \in Procs : Save(p)
    \/ \E p \in Procs, started \in BOOLEAN : Spawn(p, started)
    \/ \E p \in Procs, st \in {"code 0", "signal"} : Finish(p, st)
    \/ \E p \in Procs, cwd \in GateCwds, id \in GateIds : Emit(p, cwd, id, TRUE)

SpecGate == Init /\ [][NextGate]_vars

\* the uuids the model draws from
MaxIds == 3

Ids == 1..MaxIds

\* inputs of the subcommands under SpecStore
StoreTexts == { <<"g", "i", "t">>, <<"c", "t", "x">> }

StoreCwds == { <<"/", "a">> }

StoreDurations == {0, 2}

Answers ==
    { <<"y", "\n">>, <<"Y", "\n">>, <<" ", "y", "\n">>, <<"n", "\n">>,
      <<"y", "e", "s", "\n">>, <<>> }

StorePatterns == { <<"g", "i", "t">> }

TopNs == {0, 3}

NextStore ==
    \/ Tick(MaxClock)
    \/ \E c \in StoreTexts, w \in StoreCwds, d \in StoreDurations, id \in Ids,
          writable \in BOOLEAN : RunLogCmd(c, w, 0, d, id, writable)
    \/ \E reverse \in BOOLEAN : RunLog(reverse)
    \/ \E export, markdown \in BOOLEAN : RunToday(export, markdown)
    \/ \E export, markdown \in BOOLEAN : RunWeekly(export, markdown)
    \/ \E f \in StoreCwds : RunSummary(f)
    \/ \E answer \in Answers, writable \in BOOLEAN : RunClear(answer, writable)
    \/ \E n \in TopNs : RunTop(n)
    \/ RunProjects
    \/ \E pattern \in StorePatterns : RunSearch(pattern)
    \/ RunStats

SpecStore == Init /\ [][NextStore]_vars

\* inputs of the subcommands under SpecSelf: command texts around the
\* tool's own name
SelfTexts ==
    { <<"c", "t", "x">>, <<"c", "t", "x", " ", "a">>, <<"c", "t", "x", "a">>,
      <<" ", "c", "t", "x">>, <<"C", "T", "X", "-", "a">>, <<"c", "t", "x", "\t", "a">>,
      <<"g", "i", "t">> }

SelfCwds == { <<"/", "a">> }

SelfIds == {1, 2}

NextSelf ==
    \/ Tick(ClockStart + 1)
    \/ \E c \in SelfTexts, w \in SelfCwds, id \in SelfIds : RunLogCmd(c, w, 0, 2, id, TRUE)
    \/ \E export, markdown \in BOOLEAN : RunToday(export, markdown)
    \/ \E export, markdown \in BOOLEAN : RunWeekly(export, markdown)
    \/ \E n \in TopNs : RunTop(n)
    \/ RunProjects
    \/ RunStats

SpecSelf == Init /\ [][NextSelf]_vars

\* inputs of the subcommands under SpecSearch: letter case and the LIKE
\* wildcards in patterns and folders
SearchTexts ==
    { <<"g", "i", "t">>, <<"G", "I", "T">>, <<"a", "x", "b">>, <<"a", "_", "b">>,
      <<"c", "t", "x", " ", "g", "i", "t">> }

SearchCwds == { <<"/", "a">>, <<"/", "b">> }

SearchDurations == {0, 2}

SearchPatterns == { <<"g", "i", "t">>, <<"a", "_", "b">> }

SearchFolders == { <<"/", "a">>, <<"/", "x">> }

NextSearch ==
    \/ Tick(ClockStart + 1)
    \/ \E c \in SearchTexts, w \in SearchCwds, d \in SearchDurations, id \in SelfIds :
          RunLogCmd(c, w, 0, d, id, TRUE)
    \/ \E f \in SearchFolders : RunSummary(f)
    \/ \E pattern \in SearchPatterns : RunSearch(pattern)

SpecSearch == Init /\ [][NextSearch]_vars

\* inputs of the digests under SpecDigest: events up to a second more than
\* 24 hours old, written under two UTC offsets
DigestTexts == { <<"g", "i", "t">>, <<"v", "i">>, <<"c", "t", "x">> }

DigestCwds == { <<"/", "a">>, <<"/", "b">> }

\* the UTC offsets of the zone: standard time and one hour ahead
Zones == {0, 3600 * TicksPerSec}

\* how many seconds past 24 hours the oldest event gets
WindowSlack == 1

Naps == {Hours24 - TicksPerSec, Hours24 + TicksPerSec}

NextDigest ==
    \/ Tick(ClockStart + 1)
    \/ \E d \in Naps : Sleep(d, ClockStart + Hours24 + WindowSlack * TicksPerSec)
    \/ \E off \in Zones : SetZone(off)
    \/ \E c \in DigestTexts, w \in DigestCwds, id \in SelfIds : RunLogCmd(c, w, 0, 2, id, TRUE)
    \/ \E export, markdown \in BOOLEAN : RunToday(export, markdown)
    \/ \E export, markdown \in BOOLEAN : RunWeekly(export, markdown)

SpecDigest == Init /\ [][NextDigest]_vars

(***************************************************************************)
(* Claims about the capture gate (checked under SpecGate).                 *)
(***************************************************************************)

\* the step in which process p leaves the checks of logger.rs:46-52
Decides(p) == pc[p] = "check" /\ pc'[p] # "check"

\* C1 (as claimed): an invocation that read the state written by an accepted
\* invocation with a different text at time t1, and runs its checks at t2,
\* is rejected if t2 - t1 < 0.5 s and accepted if t2 - t1 >= 0.5 s.
C1_DebounceWindow ==
    [][\A p \in Procs :
          (Decides(p) /\ seen[p].at # 0 /\ seen[p].line1 # join(args[p]))
          => ((pc'[p] = "exited") <=> (clock - seen[p].at < HalfSecond))]_vars

\* C2 (as claimed): an invocation that carries the text of the invocation
\* just before it (which had returned, whether accepted or rejected by the
\* checks), with no other invocation in between, is rejected.
C2_DuplicateSuppressed ==
    [][\A p \in Procs :
          (Decides(p) /\ repeat[p] /\ \A q \in Procs : q > p => pc[q] = "init")
          => pc'[p] = "exited"]_vars

\* C3: every step of an invocation that ends in a rejection (not a TTY,
\* denylisted, duplicate, debounced) leaves the state file and the event
\* store exactly as they were.
C3_RejectionHasNoEffect ==
    [][\A p \in Procs :
          (pc[p] \in {"init", "read", "check"} /\ pc'[p] # pc[p] /\ pc'[p] # "save")
          => (ctx_state' = ctx_state /\ store' = store)]_vars

\* C3 witness: an invocation was rejected by the debounce window while the
\* state file held an earlier attempt.
C3_Witness ==
    /\ verdict = "debounced"
    /\ ctx_state.exists
    /\ \E p \in Procs : pc[p] = "exited"

\* both processes read the same old state, both passed the checks less than
\* 0.5 s apart, and both have written the state file
Raced(p, q) ==
    /\ p # q
    /\ pc[p] \in {"spawn", "wait", "emit"}
    /\ pc[q] \in {"spawn", "wait", "emit"}
    /\ seen[p] = seen[q]
    /\ args[p] # args[q]
    /\ now[p] - now[q] < HalfSecond
    /\ now[q] - now[p] < HalfSecond

\* the step in which process p hands its event to `ctx log-cmd` adds
\* exactly one event with the text, exit code and duration of p
LogsItsEvent(p) ==
    /\ out'.outcome = "success"
    /\ Len(store'.rows) = Len(store.rows) + 1
    /\ LET e == store'.rows[Len(store'.rows)]
       IN  /\ e.command = join(args[p])
           /\ e.exit_code = exit_code_of(status[p])
           /\ e.duration_secs = duration[p]

\* C4 (as claimed): in the race on the state file both sessions write the
\* state and both log an event.
C4_RaceLogsBoth ==
    [][\A p, q \in Procs :
          (Raced(p, q) /\ pc[p] = "emit" /\ pc'[p] = "exited") => LogsItsEvent(p)]_vars

\* the race of C4 up to the two writes of the state file is reachable
C4_RaceReached == \E p, q \in Procs : Raced(p, q) /\ pc[p] = "emit" /\ pc[q] = "emit"

\* C5 (as claimed): every accepted invocation whose wrapped command ran to
\* completion results in exactly one new event carrying its text, exit code
\* (-1 if unavailable) and duration.
C5_AcceptedIsLogged ==
    [][\A p \in Procs : (pc[p] = "emit" /\ pc'[p] = "exited") => LogsItsEvent(p)]_vars

\* the state file as process p writes it
WrittenBy(p) ==
    [exists |-> TRUE, line1 |-> join(args[p]), line2 |-> as_u64(now[p]), at |-> now[p]]

C6_LogCmdNeverFails == out.cmd = "log-cmd" => out.outcome # "panic"

\* p occurs in s as a literal, case-sensitive substring
contains(s, p) ==
    \E i \in 0..(Len(s) - Len(p)) : SubSeq(s, i + 1, i + Len(p)) = p

\* the self-exclusion rule as the claims state it: the text, left-trimmed,
\* is "ctx" or starts with "ctx" followed by whitespace
IsSelf(text) ==
    LET t == trim_start(text)
    IN  \/ t = <<"c", "t", "x">>
        \/ Len(t) >= 4 /\ SubSeq(t, 1, 3) = <<"c", "t", "x">> /\ IsSpace(t[4])

\* the stored events that are not self-invocations under that rule
NonSelf(rows) ==
    LET keep(row) == ~ IsSelf(row.command)
    IN  SelectSeq(rows, keep)

\* C7 (as claimed): stats, top, projects and the today/weekly digest count
\* exactly the events that are not self-invocations.  Checked under
\* SpecSelf, where every stored event lies within both windows.
C7_SelfExclusion ==
    LET kept == NonSelf(store.rows)
        listed == {out.rows[i][1] : i \in 1..Len(out.rows)}
    IN  /\ out.cmd = "stats" => out.total = Len(kept)
        /\ (out.cmd = "top" /\ out.n >= MaxEvents) =>
              /\ listed = commands_of(kept)
              /\ \A i \in 1..Len(out.rows) : out.rows[i][2] = command_count(kept, out.rows[i][1])
        /\ out.cmd = "projects" =>
              /\ listed = cwds_of(kept)
              /\ \A i \in 1..Len(out.rows) :
                    out.rows[i][2] = Len(SelectSeq(kept, LAMBDA row : row.cwd = out.rows[i][1]))
        /\ (out.cmd \in {"today", "weekly"} /\ out.n \in {0, 1}) => out.total = Len(kept)

\* C8 (as claimed): search(p) returns, in ascending timestamp order, exactly
\* the events whose command_text contains p literally and case-sensitively
\* and that are not self-invocations.  Checked under SpecSearch.
C8_SearchLiteral ==
    out.cmd = "search" =>
        LET want == SelectSeq(store.rows,
                              LAMBDA row : contains(row.command, out.text) /\ ~ IsSelf(row.command))
        IN  /\ Len(out.rows) = Len(want)
            /\ {out.rows[i] : i \in 1..Len(out.rows)} = {want[i] : i \in 1..Len(want)}
            /\ \A i, j \in 1..Len(out.rows) :
                  i < j => parse_from_rfc3339(out.rows[i].timestamp)
                              <= parse_from_rfc3339(out.rows[j].timestamp)

\* C9 (as claimed): summary(f) yields "no data" exactly when no stored
\* event's working_directory contains f, and otherwise the count and the
\* summed duration of the matching events.  Checked under SpecSearch.
C9_SummaryNoData ==
    out.cmd = "summary" =>
        LET hit == SelectSeq(store.rows, LAMBDA row : contains(row.cwd, out.text))
        IN  /\ out.nodata <=> hit = <<>>
            /\ hit # <<>> => (out.total = Len(hit) /\ out.sum = sum_duration(hit))

\* the answer typed, white space aside, is y in either case
AnswerIsY(answer) ==
    SelectSeq(answer, LAMBDA c : ~ IsSpace(c)) \in { <<"y">>, <<"Y">> }

\* a report over no events: nothing listed, count 0, zero sum/min/max/avg,
\* and it did not fail
EmptyReport(o) ==
    /\ o.outcome = "success"
    /\ o.rows = <<>> /\ o.folders = <<>> /\ o.commands = <<>>
    /\ o.total = 0 /\ o.sum = 0 /\ o.min = 0 /\ o.max = 0 /\ o.avg.num = 0

\* C10: clear deletes every event exactly when the answer is y (any case)
\* and leaves the store unchanged on any other answer; over a store without
\* events log, today, weekly, search, top and projects list nothing and
\* stats reports zeros without failing.  Checked under SpecStore.
C10_ClearPurges ==
    [][/\ out'.cmd = "clear" =>
             (out'.n = 1 <=> (AnswerIsY(out'.text) /\ out'.outcome = "success"))
       /\ (out'.cmd = "clear" /\ out'.n = 1) => store'.rows = <<>>
       /\ (out'.cmd = "clear" /\ ~ AnswerIsY(out'.text)) => store'.rows = store.rows
       /\ (store.rows = <<>>
           /\ out'.cmd \in {"log", "today", "weekly", "search", "top", "projects", "stats"})
             => EmptyReport(out')]_vars

\* C10 witness: a confirmed clear has just deleted the events of a store
\* that held some.
C10_Witness ==
    out.cmd = "clear" /\ out.n = 1 /\ out.total > 0 /\ store.rows = <<>>

(***************************************************************************)
(* Claims about the windowed digests (checked under SpecDigest).           *)
(***************************************************************************)

\* every stored event was written under the UTC offset in force now
SameZone == \A i \in 1..Len(store.rows) : store.rows[i].timestamp.off = tz

\* o is a digest (plain or markdown) of today or weekly
IsDigest(o) == o.cmd \in {"today", "weekly"} /\ o.n \in {0, 1}

\* the step is a run of today or weekly that printed a digest
DigestRun == out' # out /\ IsDigest(out')

\* the stored events the window of that digest holds, chronologically,
\* self-invocations left out, in the order they were stored
DigestEvents ==
    LET window == IF out'.cmd = "today" THEN Hours24 ELSE Days7
        keep(row) == /\ parse_from_rfc3339(row.timestamp) >= clock - window
                     /\ ~ IsSelf(row.command)
    IN  SelectSeq(store.rows, keep)

\* the uptime the digest should print for the events ev
UptimeOf(ev) ==
    LET at == {parse_from_rfc3339(ev[i].timestamp) : i \in 1..Len(ev)}
    IN  IF Len(ev) <= 1 THEN [na |-> TRUE, secs |-> 0]
        ELSE [na |-> FALSE, secs |-> (max_of(at) - min_of(at)) \div TicksPerSec]

\* C11 (as claimed): the digest reports uptime N/A when zero or exactly one
\* non-self event lies in the window, and last - first in whole seconds
\* when two or more do.
C11_UptimeNA ==
    [][(DigestRun /\ SameZone) => out'.uptime = UptimeOf(DigestEvents)]_vars

\* the orders in which a scan in ascending order of the instants can meet
\* the events ev
AscendingScans(ev) ==
    LET n == Len(ev)
        asc(f) == \A i, j \in 1..n :
                     i < j => parse_from_rfc3339(ev[f[i]].timestamp)
                                 <= parse_from_rfc3339(ev[f[j]].timestamp)
    IN  {[i \in 1..n |-> ev[f[i]]] : f \in {g \in Perms(1..n) : asc(g)}}

\* where key k is first met in the sequence of keys ks
FirstSeen(ks, k) == CHOOSE i \in 1..Len(ks) : ks[i] = k /\ \A j \in 1..(i - 1) : ks[j] # k

\* the keys of ks by descending total, equal totals in the order first met
EncounterRanking(ks, total) ==
    LET keys == {ks[i] : i \in 1..Len(ks)}
        before(a, b) == \/ total[a] > total[b]
                        \/ total[a] = total[b] /\ FirstSeen(ks, a) < FirstSeen(ks, b)
    IN  CHOOSE f \in Perms(keys) :
            \A i, j \in 1..Cardinality(keys) : i < j => before(f[i], f[j])

\* the top 3 folders and commands of a scan, ranked that way
TopOfScan(scan) ==
    LET cw == [i \in 1..Len(scan) |-> scan[i].cwd]
        cm == [i \in 1..Len(scan) |-> scan[i].command]
        ft == [k \in cwds_of(scan) |-> folder_time(scan, k)]
        cc == [k \in commands_of(scan) |-> command_count(scan, k)]
        fr == EncounterRanking(cw, ft)
        cr == EncounterRanking(cm, cc)
    IN  [folders |-> take([i \in 1..Len(fr) |-> <<fr[i], ft[fr[i]]>>], 3),
         commands |-> take([i \in 1..Len(cr) |-> <<cr[i], cc[cr[i]]>>], 3)]

\* C12 (as claimed): the digest lists the top 3 folders by summed duration
\* and the top 3 commands by count in descending order of the totals, keys
\* with equal totals in the order the ascending scan first met them.
C12_RankingDeterministic ==
    [][(DigestRun /\ SameZone) =>
          \E scan \in AscendingScans(DigestEvents) :
              /\ out'.folders = TopOfScan(scan).folders
              /\ out'.commands = TopOfScan(scan).commands]_vars

\* the step is a run of today (digest or listing)
TodayRun == out' # out /\ out'.cmd = "today"

\* the stored events not older than 24 hours at the time of the run
Within24h ==
    LET keep(row) == parse_from_rfc3339(row.timestamp) >= clock - Hours24
    IN  SelectSeq(store.rows, keep)

\* C13 (as claimed): today reports a stored event exactly when its capture
\* instant t satisfies t >= now - 24h, whatever UTC offsets the stored
\* timestamp and the bound carry.
C13_TodayWindow ==
    [][TodayRun =>
          IF out'.n = 2
          THEN ids_of(out'.rows) = ids_of(Within24h)
          ELSE out'.total = Len(NonSelf(Within24h))]_vars

(***************************************************************************)
(* Claims about the event store (checked under SpecStore).                 *)
(***************************************************************************)

\* the step is a run of log
LogRun == out'.cmd = "log" /\ (out.cmd # "log" \/ out' # out)

\* a listed row is the stored row: the same instant, the other fields equal
SameEvent(shown, stored) ==
    /\ parse_from_rfc3339(shown.timestamp) = parse_from_rfc3339(stored.timestamp)
    /\ [shown EXCEPT !.timestamp = stored.timestamp] = stored

\* seq back to front
Reversed(seq) == [i \in 1..Len(seq) |-> seq[Len(seq) + 1 - i]]

\* C14 (as claimed): log and log --reverse each list exactly the stored
\* events with unchanged field values, and the descending listing is the
\* exact reverse of the ascending one, equal timestamps included.
C14_ScanRoundTrip ==
    [][LogRun =>
          /\ Len(out'.rows) = Len(store.rows)
          /\ \A i \in 1..Len(store.rows) :
                \E j \in 1..Len(out'.rows) : SameEvent(out'.rows[j], store.rows[i])
          /\ (out.cmd = "log" /\ out.n # out'.n) => out'.rows = Reversed(out.rows)]_vars

\* C16: over every sequence of runs of main no two stored events share an
\* id; the stored events change only by a successful log-cmd, which appends
\* one event and leaves the earlier ones as they were, or by a confirmed
\* clear, which removes them all; init_db on an existing table, every
\* report and a failed insert leave them unchanged.
C16_StoreInvariant ==
    [][/\ \A i, j \in 1..Len(store'.rows) :
             i # j => store'.rows[i].id # store'.rows[j].id
       /\ store.exists => store'.exists
       /\ \/ store'.rows = store.rows
          \/ /\ out'.cmd = "log-cmd" /\ out'.outcome = "success"
             /\ Len(store'.rows) = Len(store.rows) + 1
             /\ SubSeq(store'.rows, 1, Len(store.rows)) = store.rows
          \/ /\ out'.cmd = "clear" /\ out'.n = 1 /\ AnswerIsY(out'.text)
             /\ store'.rows = <<>>
       /\ out'.cmd \notin {"log-cmd", "clear"} => store'.rows = store.rows
       /\ (out'.cmd = "log-cmd" /\ out'.outcome # "success") =>
             store'.rows = store.rows]_vars

\* C16 witness: an insert has just failed on a table that holds an event,
\* which is still the only one.
C16_Witness ==
    out.cmd = "log-cmd" /\ out.outcome = "panic" /\ Len(store.rows) = 1

=============================================================================
